---- MODULE Spec2Model ----
(***************************************************************************)
(* Water Guardian++: the threshold classifier (check_thresholds), the      *)
(* ingestion endpoint (receive_data / call_ai), the store (readings,       *)
(* analyses), the query and clear endpoints, and the device loop that      *)
(* forwards samples and dispatches alerts.                                 *)
(*                                                                         *)
(* TDS and temperature are floats in the program.  Every threshold is an   *)
(* integer and every comparison is a strict < or >, so a non-integer value *)
(* falls in the tier of one of its two integer neighbours; the model draws *)
(* the inputs from integers.                                               *)
(***************************************************************************)
EXTENDS Integers, Sequences, FiniteSets, TLC

VARIABLES
    \* ---- one evaluation of check_thresholds, statement by statement
    evalPc,          \* "idle" | "tds" | "temperature" | "return" | "done"
    evalTDS,         \* argument tds
    evalTemp,        \* argument temp
    evalSeverity,    \* local severity
    evalIssues,      \* local issues
    evalResult,      \* the returned triple
    \* ---- the server process
    GEMINI_API_KEY,  \* TRUE iff the environment gave a non-empty key
    readings,        \* table readings: a set of rows
    analyses,        \* table analyses: a set of rows
    req,             \* the ingestion requests, by arrival number
    nextReq,         \* arrival number of the next ingestion request
    now,             \* datetime.utcnow(), in hours
    cleared,         \* TRUE iff nothing was committed since the last clear_data
    historyResp,     \* the last response of GET /readings/history
    \* ---- the device loop
    devPc,           \* "listening" | "posting" | "alerting"
    devReq,          \* the request the loop is waiting for
    devOutcome       \* per request, what the loop printed for it

evalVars == <<evalPc, evalTDS, evalTemp, evalSeverity, evalIssues, evalResult>>
storeVars == <<readings, analyses>>
serverVars == <<GEMINI_API_KEY, readings, analyses, req, nextReq, now, cleared, historyResp>>
deviceVars == <<devPc, devReq, devOutcome>>
vars == <<evalVars, serverVars, deviceVars>>

(***************************************************************************)
(* Bounds of the model.                                                    *)
(***************************************************************************)
MaxTDS == 1600          \* classifier inputs: tds in 0..MaxTDS
MaxTemp == 45           \* classifier inputs: temp in -BelowZero..MaxTemp
BelowZero == 5
MaxRequests == 2        \* ingestion requests in one behaviour
MaxTime == 1            \* the clock runs 0..MaxTime

(***************************************************************************)
(* THRESHOLDS                                                              *)
(***************************************************************************)
THRESHOLDS ==
    [TDS |-> [optimal_min |-> 60, optimal_max |-> 500,
              warning_max |-> 1200, critical_max |-> 1500],
     temperature |-> [optimal_min |-> 18, optimal_max |-> 27,
                      warning_min |-> 15, warning_max |-> 32,
                      critical_min |-> 10, critical_max |-> 35]]

Severities == {"safe", "warning", "critical"}

\* An issue string: which message, and the value formatted into it.
Issue(kind, value) == [kind |-> kind, value |-> value]

\* Locals of check_thresholds at entry.
EvalStart == [severity |-> "safe", issues |-> <<>>]

\* "if severity == 'safe': severity = 'warning'"
WarnIfSafe(severity) == IF severity = "safe" THEN "warning" ELSE severity

\* A TDS check without the low-end branch.
TDSCheckNoLowEnd(tds, st) ==
    IF tds > THRESHOLDS.TDS.critical_max
    THEN [severity |-> "critical",
          issues |-> Append(st.issues, Issue("TDS_CRITICAL_SCALE_RISK", tds))]
    ELSE IF tds > THRESHOLDS.TDS.warning_max
    THEN [severity |-> WarnIfSafe(st.severity),
          issues |-> Append(st.issues, Issue("TDS_SCALE_FORMATION_WARNING", tds))]
    ELSE IF tds > THRESHOLDS.TDS.optimal_max
    THEN [severity |-> WarnIfSafe(st.severity),
          issues |-> Append(st.issues, Issue("TDS_ABOVE_OPTIMAL", tds))]
    ELSE st

\* A TDS check whose "above optimal" tier is missing.
TDSCheckNoAboveOptimal(tds, st) ==
    IF tds < THRESHOLDS.TDS.optimal_min
    THEN [severity |-> "warning",
          issues |-> Append(st.issues, Issue("TDS_TOO_LOW", tds))]
    ELSE IF tds > THRESHOLDS.TDS.critical_max
    THEN [severity |-> "critical",
          issues |-> Append(st.issues, Issue("TDS_CRITICAL_SCALE_RISK", tds))]
    ELSE IF tds > THRESHOLDS.TDS.warning_max
    THEN [severity |-> WarnIfSafe(st.severity),
          issues |-> Append(st.issues, Issue("TDS_SCALE_FORMATION_WARNING", tds))]
    ELSE st

\* check_thresholds, the TDS if/elif chain.
TDSCheck(tds, st) ==
    IF tds < THRESHOLDS.TDS.optimal_min
    THEN [severity |-> "warning",
          issues |-> Append(st.issues, Issue("TDS_TOO_LOW", tds))]
    ELSE IF tds > THRESHOLDS.TDS.critical_max
    THEN [severity |-> "critical",
          issues |-> Append(st.issues, Issue("TDS_CRITICAL_SCALE_RISK", tds))]
    ELSE IF tds > THRESHOLDS.TDS.warning_max
    THEN [severity |-> WarnIfSafe(st.severity),
          issues |-> Append(st.issues, Issue("TDS_SCALE_FORMATION_WARNING", tds))]
    ELSE IF tds > THRESHOLDS.TDS.optimal_max
    THEN [severity |-> WarnIfSafe(st.severity),
          issues |-> Append(st.issues, Issue("TDS_ABOVE_OPTIMAL", tds))]
    ELSE st

\* A temperature check whose warning tier assigns "warning" unconditionally.
TemperatureCheckOverwrite(temp, st) ==
    IF temp < THRESHOLDS.temperature.critical_min
       \/ temp > THRESHOLDS.temperature.critical_max
    THEN [severity |-> "critical",
          issues |-> Append(st.issues, Issue("TEMP_CRITICAL", temp))]
    ELSE IF temp < THRESHOLDS.temperature.warning_min
            \/ temp > THRESHOLDS.temperature.warning_max
    THEN [severity |-> "warning",
          issues |-> Append(st.issues, Issue("TEMP_EFFICIENCY_WARNING", temp))]
    ELSE IF temp > THRESHOLDS.temperature.optimal_max
    THEN [severity |-> "warning",
          issues |-> Append(st.issues, Issue("TEMP_ABOVE_OPTIMAL", temp))]
    ELSE st

\* A temperature check that compares optimal_max with >= instead of >.
TemperatureCheckOffByOne(temp, st) ==
    IF temp < THRESHOLDS.temperature.critical_min
       \/ temp > THRESHOLDS.temperature.critical_max
    THEN [severity |-> "critical",
          issues |-> Append(st.issues, Issue("TEMP_CRITICAL", temp))]
    ELSE IF temp < THRESHOLDS.temperature.warning_min
            \/ temp > THRESHOLDS.temperature.warning_max
    THEN [severity |-> WarnIfSafe(st.severity),
          issues |-> Append(st.issues, Issue("TEMP_EFFICIENCY_WARNING", temp))]
    ELSE IF temp >= THRESHOLDS.temperature.optimal_max
    THEN [severity |-> WarnIfSafe(st.severity),
          issues |-> Append(st.issues, Issue("TEMP_ABOVE_OPTIMAL", temp))]
    ELSE st

\* check_thresholds, the temperature if/elif chain.
TemperatureCheck(temp, st) ==
    IF temp < THRESHOLDS.temperature.critical_min
       \/ temp > THRESHOLDS.temperature.critical_max
    THEN [severity |-> "critical",
          issues |-> Append(st.issues, Issue("TEMP_CRITICAL", temp))]
    ELSE IF temp < THRESHOLDS.temperature.warning_min
            \/ temp > THRESHOLDS.temperature.warning_max
    THEN [severity |-> WarnIfSafe(st.severity),
          issues |-> Append(st.issues, Issue("TEMP_EFFICIENCY_WARNING", temp))]
    ELSE IF temp > THRESHOLDS.temperature.optimal_max
    THEN [severity |-> WarnIfSafe(st.severity),
          issues |-> Append(st.issues, Issue("TEMP_ABOVE_OPTIMAL", temp))]
    ELSE st

\* "return severity != 'safe', severity, issues"
EvalReturn(st) ==
    [should_trigger |-> st.severity # "safe",
     severity |-> st.severity,
     issues |-> st.issues]

\* check_thresholds as a whole, as receive_data calls it.
check_thresholds(tds, temp) ==
    EvalReturn(TemperatureCheck(temp, TDSCheck(tds, EvalStart)))

NoResult == [should_trigger |-> FALSE, severity |-> "safe", issues |-> <<>>]

(***************************************************************************)
(* One evaluation of check_thresholds, one statement group per step.       *)
(***************************************************************************)
EvalInputsTDS == 0..MaxTDS
EvalInputsTemp == (0 - BelowZero)..MaxTemp

EvalIdle ==
    /\ evalPc = "idle"
    /\ evalTDS = 0
    /\ evalTemp = 0
    /\ evalSeverity = "safe"
    /\ evalIssues = <<>>
    /\ evalResult = NoResult

EvalInit ==
    /\ evalPc = "tds"
    /\ evalTDS \in EvalInputsTDS
    /\ evalTemp \in EvalInputsTemp
    /\ evalSeverity = EvalStart.severity
    /\ evalIssues = EvalStart.issues
    /\ evalResult = NoResult

EvalCheckTDS ==
    /\ evalPc = "tds"
    /\ LET st == TDSCheck(evalTDS, [severity |-> evalSeverity, issues |-> evalIssues])
       IN /\ evalSeverity' = st.severity
          /\ evalIssues' = st.issues
    /\ evalPc' = "temperature"
    /\ UNCHANGED <<evalTDS, evalTemp, evalResult>>

EvalCheckTemperature ==
    /\ evalPc = "temperature"
    /\ LET st == TemperatureCheck(evalTemp, [severity |-> evalSeverity, issues |-> evalIssues])
       IN /\ evalSeverity' = st.severity
          /\ evalIssues' = st.issues
    /\ evalPc' = "return"
    /\ UNCHANGED <<evalTDS, evalTemp, evalResult>>

EvalDoReturn ==
    /\ evalPc = "return"
    /\ evalResult' = EvalReturn([severity |-> evalSeverity, issues |-> evalIssues])
    /\ evalPc' = "done"
    /\ UNCHANGED <<evalTDS, evalTemp, evalSeverity, evalIssues>>

(***************************************************************************)
(* The store.                                                              *)
(***************************************************************************)
Req == 1..MaxRequests

SetMax(S) == CHOOSE x \in S : \A y \in S : y <= x

\* The id SQLite gives a row inserted into a table whose INTEGER PRIMARY KEY
\* has no AUTOINCREMENT: one more than the largest id in the table, 1 when
\* the table is empty.
NextId(table) ==
    IF table = {} THEN 1 ELSE SetMax({row.id : row \in table}) + 1

NoAnalysis == [status |-> "null", recommendations |-> "null"]

NoReading == [id |-> 0, timestamp |-> 0, TDS |-> 0, temperature |-> 0, is_safe |-> FALSE]

NoResponse ==
    [status_code |-> 0, id |-> 0, timestamp |-> 0, TDS |-> 0, temperature |-> 0,
     is_safe |-> FALSE, ai_triggered |-> FALSE, severity |-> "null",
     issues |-> <<>>, analysis |-> NoAnalysis]

\* An unhandled exception in the handler: 500 Internal Server Error.
ErrorResponse == [NoResponse EXCEPT !.status_code = 500]

IdleReq ==
    [pc |-> "idle", origin |-> "none", TDS |-> 0, temperature |-> 0,
     should_trigger |-> FALSE, severity |-> "safe", issues |-> <<>>,
     key |-> FALSE,             \* GEMINI_API_KEY as the request read it
     should_call_ai |-> FALSE,
     reading |-> NoReading,     \* the ORM object of the request's session
     expired |-> FALSE,         \* its attributes were expired by a commit
     analysis_data |-> NoAnalysis,
     ai_calls |-> 0,            \* times generate_content was invoked
     ai_result |-> "none",      \* "none" | "pending" | "ok" | "error"
     written |-> 0,             \* Analysis rows this request inserted
     response |-> NoResponse]

\* A cost gate that tests TDS >= 1000.
CostGateInclusive(tds, key) == tds >= 1000 /\ key

\* "should_call_ai = data.TDS > 1000 and GEMINI_API_KEY"
CostGate(tds, key) == tds > 1000 /\ key

\* A Reading row whose ai_triggered records the cost gate.
ReadingRowGate(id, ts, r) ==
    [id |-> id, timestamp |-> ts, TDS |-> r.TDS, temperature |-> r.temperature,
     is_safe |-> (r.severity = "safe"), ai_triggered |-> r.should_call_ai]

\* "reading = Reading(TDS=..., temperature=..., is_safe=..., ai_triggered=...)"
ReadingRow(id, ts, r) ==
    [id |-> id, timestamp |-> ts, TDS |-> r.TDS, temperature |-> r.temperature,
     is_safe |-> (r.severity = "safe"), ai_triggered |-> r.should_trigger]

\* "analysis = Analysis(reading_id=..., status=severity, recommendations=...)"
AnalysisRow(id, ts, reading_id, severity, recs) ==
    [id |-> id, timestamp |-> ts, reading_id |-> reading_id,
     status |-> severity, recommendations |-> recs]

\* The samples posted in the system model, as <<TDS, temperature>>: a safe
\* one, one critical by temperature alone, one at the cost gate's cutoff and
\* one above it.
SensorInputs == {<<300, 22>>, <<300, 40>>, <<1000, 22>>, <<1100, 22>>}

\* What the AI text yields: recommendations parsed after "ACTIONS:", or none
\* (the fixed fallback list is substituted).
Recommendations == {"parsed", "fallback"}

\* receive_data up to the cost gate: classification and should_call_ai.
Classified(tds, temp, origin) ==
    LET c == check_thresholds(tds, temp)
    IN [IdleReq EXCEPT !.pc = "classified", !.origin = origin,
                       !.TDS = tds, !.temperature = temp,
                       !.should_trigger = c.should_trigger,
                       !.severity = c.severity, !.issues = c.issues,
                       !.key = GEMINI_API_KEY,
                       !.should_call_ai = CostGate(tds, GEMINI_API_KEY)]

ReceiveData(tds, temp, origin) ==
    /\ nextReq <= MaxRequests
    /\ req' = [req EXCEPT ![nextReq] = Classified(tds, temp, origin)]
    /\ nextReq' = nextReq + 1
    /\ UNCHANGED <<GEMINI_API_KEY, readings, analyses, now, cleared, historyResp>>

\* Any HTTP client other than the device loop posts a sample.
ClientPost ==
    /\ \E d \in SensorInputs : ReceiveData(d[1], d[2], "client")
    /\ UNCHANGED <<evalVars, deviceVars>>

\* "db.add(reading); db.commit(); db.refresh(reading)"
StoreReading(r) ==
    /\ req[r].pc = "classified"
    /\ LET row == ReadingRow(NextId(readings), now, req[r])
       IN /\ readings' = readings \cup {row}
          /\ req' = [req EXCEPT ![r].pc = "stored",
                                ![r].reading = [id |-> row.id, timestamp |-> row.timestamp,
                                                TDS |-> row.TDS, temperature |-> row.temperature,
                                                is_safe |-> row.is_safe]]
    /\ cleared' = FALSE
    /\ UNCHANGED <<GEMINI_API_KEY, analyses, nextReq, now, historyResp>>
    /\ UNCHANGED <<evalVars, deviceVars>>

\* "if should_call_ai:" up to model.generate_content(prompt) being issued.
CallAI(r) ==
    /\ req[r].pc = "stored"
    /\ req[r].should_call_ai
    /\ req' = [req EXCEPT ![r].pc = "ai_requested",
                          ![r].issues = IF req[r].issues = <<>>
                                        THEN <<Issue("TDS_HIGH_DEFAULT", req[r].TDS)>>
                                        ELSE req[r].issues,
                          ![r].ai_calls = req[r].ai_calls + 1,
                          ![r].ai_result = "pending"]
    /\ UNCHANGED <<GEMINI_API_KEY, readings, analyses, nextReq, now, cleared, historyResp>>
    /\ UNCHANGED <<evalVars, deviceVars>>

\* "else: print('AI not triggered ...')"
SkipAI(r) ==
    /\ req[r].pc = "stored"
    /\ ~req[r].should_call_ai
    /\ req' = [req EXCEPT ![r].pc = "ai_skipped", ![r].analysis_data = NoAnalysis]
    /\ UNCHANGED <<GEMINI_API_KEY, readings, analyses, nextReq, now, cleared, historyResp>>
    /\ UNCHANGED <<evalVars, deviceVars>>

\* call_ai, the try block running to its return: the text is parsed, the
\* Analysis row is committed (which expires the session's objects).
AISuccess(r, recs) ==
    /\ req[r].pc = "ai_requested"
    /\ analyses' = analyses \cup
           {AnalysisRow(NextId(analyses), now, req[r].reading.id, req[r].severity, recs)}
    /\ req' = [req EXCEPT ![r].pc = "ai_stored",
                          ![r].ai_result = "ok",
                          ![r].expired = TRUE,
                          ![r].written = req[r].written + 1,
                          ![r].analysis_data = [status |-> req[r].severity,
                                                recommendations |-> recs]]
    /\ cleared' = FALSE
    /\ UNCHANGED <<GEMINI_API_KEY, readings, nextReq, now, historyResp>>
    /\ UNCHANGED <<evalVars, deviceVars>>

\* A call_ai without the except clause: the error leaves receive_data.
AIErrorPropagates(r) ==
    /\ req[r].pc = "ai_requested"
    /\ req' = [req EXCEPT ![r].pc = "responded", ![r].ai_result = "error",
                          ![r].response = ErrorResponse]
    /\ UNCHANGED <<GEMINI_API_KEY, readings, analyses, nextReq, now, cleared, historyResp>>
    /\ UNCHANGED <<evalVars, deviceVars>>

\* call_ai, "except Exception as e: ... return None": the external call (or
\* reading its text) raised.
AIError(r) ==
    /\ req[r].pc = "ai_requested"
    /\ req' = [req EXCEPT ![r].pc = "ai_failed", ![r].ai_result = "error",
                          ![r].analysis_data = NoAnalysis]
    /\ UNCHANGED <<GEMINI_API_KEY, readings, analyses, nextReq, now, cleared, historyResp>>
    /\ UNCHANGED <<evalVars, deviceVars>>

\* The attributes of the request's reading object as the return statement
\* reads them: the loaded values, or, once a commit expired them, the row
\* the store now holds under that id (none: ObjectDeletedError).
LoadReading(r) ==
    IF ~req[r].expired THEN {req[r].reading}
    ELSE {[id |-> row.id, timestamp |-> row.timestamp, TDS |-> row.TDS,
           temperature |-> row.temperature, is_safe |-> row.is_safe]
          : row \in {x \in readings : x.id = req[r].reading.id}}

\* "return {id, timestamp, TDS, temperature, is_safe, ai_triggered, severity,
\*  issues, analysis}"
ResponseOf(r, reading) ==
    [status_code |-> 200, id |-> reading.id, timestamp |-> reading.timestamp,
     TDS |-> reading.TDS, temperature |-> reading.temperature,
     is_safe |-> reading.is_safe, ai_triggered |-> req[r].should_trigger,
     severity |-> req[r].severity, issues |-> req[r].issues,
     analysis |-> req[r].analysis_data]

Respond(r) ==
    /\ req[r].pc \in {"ai_skipped", "ai_stored", "ai_failed"}
    /\ LET loaded == LoadReading(r)
       IN req' = [req EXCEPT ![r].pc = "responded",
                             ![r].response =
                                 IF loaded = {} THEN ErrorResponse
                                 ELSE ResponseOf(r, CHOOSE x \in loaded : TRUE)]
    /\ UNCHANGED <<GEMINI_API_KEY, readings, analyses, nextReq, now, cleared, historyResp>>
    /\ UNCHANGED <<evalVars, deviceVars>>

(***************************************************************************)
(* Query and clear endpoints, the clock, the process start.                *)
(***************************************************************************)
\* A clear that deletes the analyses and forgets the readings.
clear_analyses_only ==
    /\ analyses' = {}
    /\ cleared' = TRUE
    /\ UNCHANGED <<GEMINI_API_KEY, readings, req, nextReq, now, historyResp>>
    /\ UNCHANGED <<evalVars, deviceVars>>

\* DELETE /data/clear: both deletes, one commit.
clear_data ==
    /\ analyses' = {}
    /\ readings' = {}
    /\ cleared' = TRUE
    /\ UNCHANGED <<GEMINI_API_KEY, req, nextReq, now, historyResp>>
    /\ UNCHANGED <<evalVars, deviceVars>>

\* The rows of S by timestamp ascending (rows of one timestamp by id).
RECURSIVE OrderByTimestamp(_)
OrderByTimestamp(S) ==
    IF S = {} THEN <<>>
    ELSE LET first == CHOOSE x \in S : \A y \in S :
                          \/ x.timestamp < y.timestamp
                          \/ (x.timestamp = y.timestamp /\ x.id <= y.id)
         IN <<first>> \o OrderByTimestamp(S \ {first})

\* The lookbacks a history query is made with, in hours: a window that starts
\* in the future, an empty one, one hour, and the default of 24.
Hours == {0 - 1, 0, 1, 24}

NoHistory == [count |-> 0, data |-> <<>>, after_clear |-> FALSE, asked |-> FALSE]

\* GET /readings/history?hours=h.  Of the response, count and data are kept
\* (hours echoes the parameter); after_clear and asked record when it was made.
history(h) ==
    /\ LET since == now - h
           rows == OrderByTimestamp({r \in readings : r.timestamp >= since})
       IN historyResp' =
              [count |-> Len(rows),
               data |-> [i \in 1..Len(rows) |->
                            [timestamp |-> rows[i].timestamp, TDS |-> rows[i].TDS,
                             temperature |-> rows[i].temperature,
                             is_safe |-> rows[i].is_safe]],
               after_clear |-> cleared,
               asked |-> TRUE]
    /\ UNCHANGED <<GEMINI_API_KEY, readings, analyses, req, nextReq, now, cleared>>
    /\ UNCHANGED <<evalVars, deviceVars>>

\* Time passes.
Tick ==
    /\ now < MaxTime
    /\ now' = now + 1
    /\ UNCHANGED <<GEMINI_API_KEY, readings, analyses, req, nextReq, cleared, historyResp>>
    /\ UNCHANGED <<evalVars, deviceVars>>

InFlight(r) == req[r].pc \notin {"idle", "responded"}

\* The server process is started again, with or without a key in its
\* environment; the database file stays.
Restart(key) ==
    /\ \A r \in Req : ~InFlight(r)
    /\ GEMINI_API_KEY' = key
    /\ UNCHANGED <<readings, analyses, req, nextReq, now, cleared, historyResp>>
    /\ UNCHANGED <<evalVars, deviceVars>>

(***************************************************************************)
(* The device loop (main of arduinowithnotifs.py).                         *)
(***************************************************************************)
\* An alert condition that looks at the analysis instead of is_safe.
AlertOnAnalysis(result) == result.analysis # NoAnalysis

\* "if not result['is_safe']:"
AlertNeeded(result) == ~result.is_safe

\* A line with both fields is posted; the server takes the request.
DevForward ==
    /\ devPc = "listening"
    /\ \E d \in SensorInputs : ReceiveData(d[1], d[2], "device")
    /\ devPc' = "posting"
    /\ devReq' = nextReq
    /\ UNCHANGED <<evalVars, devOutcome>>

\* requests.post raises RequestException while the loop waits: logged, the
\* loop goes on with the next line; the server goes on with the request.
DevPostFailed ==
    /\ devPc = "posting"
    /\ req[devReq].pc # "responded"
    /\ devOutcome' = [devOutcome EXCEPT ![devReq] = "post_failed"]
    /\ devPc' = "listening"
    /\ UNCHANGED <<evalVars, serverVars, devReq>>

\* The response arrives.
DevResponse ==
    /\ devPc = "posting"
    /\ req[devReq].pc = "responded"
    /\ LET result == req[devReq].response
       IN IF result.status_code # 200
          THEN /\ devOutcome' = [devOutcome EXCEPT ![devReq] = "api_error"]
               /\ devPc' = "listening"
          ELSE IF AlertNeeded(result)
          THEN /\ devPc' = "alerting"
               /\ UNCHANGED devOutcome
          ELSE /\ devOutcome' = [devOutcome EXCEPT ![devReq] = "safe"]
               /\ devPc' = "listening"
    /\ UNCHANGED <<evalVars, serverVars, devReq>>

\* send_email_alert: the SMTP exchange succeeds ("alert_sent") or raises and
\* is printed ("alert_failed"); either way the function returns.
send_email_alert(outcome) ==
    /\ devPc = "alerting"
    /\ devOutcome' = [devOutcome EXCEPT ![devReq] = outcome]
    /\ devPc' = "listening"
    /\ UNCHANGED <<evalVars, serverVars, devReq>>

(***************************************************************************)
(* Specifications.                                                         *)
(***************************************************************************)
ServerInit ==
    /\ readings = {}
    /\ analyses = {}
    /\ req = [r \in Req |-> IdleReq]
    /\ nextReq = 1
    /\ now = 0
    /\ cleared = FALSE
    /\ historyResp = NoHistory

DeviceInit ==
    /\ devPc = "listening"
    /\ devReq = 1
    /\ devOutcome = [r \in Req |-> "none"]

Init ==
    /\ EvalIdle
    /\ GEMINI_API_KEY \in BOOLEAN
    /\ ServerInit
    /\ DeviceInit

\* The ingestion endpoint under concurrent requests, clears and restarts.
\* history writes historyResp only, which no other action reads; Tick changes
\* now only, which reaches only the timestamps history filters on; the device
\* loop reaches the server only through ReceiveData, as ClientPost does.
\* They are left to SpecQuery and SpecDevice.
Ingest ==
    \/ \E r \in Req : StoreReading(r)
    \/ \E r \in Req : CallAI(r)
    \/ \E r \in Req : SkipAI(r)
    \/ \E r \in Req, recs \in Recommendations : AISuccess(r, recs)
    \/ \E r \in Req : AIError(r)
    \/ \E r \in Req : Respond(r)

Next ==
    \/ ClientPost
    \/ Ingest
    \/ clear_data
    \/ \E key \in BOOLEAN : Restart(key)

Spec == Init /\ [][Next]_vars

\* The store under ingestion, clears, history queries and the clock, the
\* ingestion requests arriving one after the other.
QueryNext ==
    \/ (\A r \in Req : ~InFlight(r)) /\ ClientPost
    \/ Ingest
    \/ clear_data
    \/ \E h \in Hours : history(h)
    \/ Tick

SpecQuery == Init /\ [][QueryNext]_vars

\* The device loop against the ingestion endpoint.
DeviceNext ==
    \/ DevForward
    \/ Ingest
    \/ clear_data
    \/ DevPostFailed
    \/ DevResponse
    \/ \E outcome \in {"alert_sent", "alert_failed"} : send_email_alert(outcome)

SpecDevice == Init /\ [][DeviceNext]_vars

\* One evaluation of check_thresholds on every input of the grid.
ClassifyInit ==
    /\ EvalInit
    /\ GEMINI_API_KEY = FALSE
    /\ ServerInit
    /\ DeviceInit

ClassifyNext ==
    \/ EvalCheckTDS /\ UNCHANGED <<serverVars, deviceVars>>
    \/ EvalCheckTemperature /\ UNCHANGED <<serverVars, deviceVars>>
    \/ EvalDoReturn /\ UNCHANGED <<serverVars, deviceVars>>

SpecClassify == ClassifyInit /\ [][ClassifyNext]_vars

(***************************************************************************)
(* Properties.                                                             *)
(***************************************************************************)
Rank(severity) ==
    CASE severity = "safe" -> 0
      [] severity = "warning" -> 1
      [] severity = "critical" -> 2

Max2(a, b) == IF a >= b THEN a ELSE b

EvalDone == evalPc = "done"

\* C1, as stated: whenever TDS <= 60 or TDS >= 1500, whatever the
\* temperature, check_thresholds does not return severity "safe".
C1_NeverSafeAtOrBelow60 ==
    (EvalDone /\ (evalTDS <= 60 \/ evalTDS >= 1500)) => evalResult.severity # "safe"

\* C1, amended: whenever TDS < 60 or TDS >= 1500, whatever the temperature,
\* check_thresholds does not return severity "safe" (TDS = 60 is inside the
\* optimal band).
C1_NeverSafeBelow60 ==
    (EvalDone /\ (evalTDS < 60 \/ evalTDS >= 1500)) => evalResult.severity # "safe"

C1_Witness ==
    /\ EvalDone
    /\ evalTDS = 59
    /\ evalTemp = 22
    /\ evalResult.severity = "warning"
    /\ evalResult.issues = <<Issue("TDS_TOO_LOW", 59)>>

\* C4: within one evaluation no step lowers the severity, and the severity
\* returned is the higher of the severity the TDS check alone yields and the
\* severity the temperature check alone yields.
C4_SeverityOnlyEscalates ==
    /\ [][Rank(evalSeverity') >= Rank(evalSeverity)]_vars
    /\ [](EvalDone =>
            Rank(evalResult.severity) =
                Max2(Rank(TDSCheck(evalTDS, EvalStart).severity),
                     Rank(TemperatureCheck(evalTemp, EvalStart).severity)))

\* A TDS-driven critical meets a temperature that alone justifies a warning.
C4_Witness ==
    /\ EvalDone
    /\ evalTDS = 1501
    /\ evalTemp = 33
    /\ evalResult.severity = "critical"
    /\ Len(evalResult.issues) = 2

\* C5: whenever 60 < TDS <= 500 and 18 <= temperature <= 27, check_thresholds
\* returns severity "safe", no issue and should_trigger false.
C5_SafeInsideOptimalBand ==
    (EvalDone /\ 60 < evalTDS /\ evalTDS <= 500 /\ 18 <= evalTemp /\ evalTemp <= 27)
        => /\ evalResult.severity = "safe"
           /\ evalResult.issues = <<>>
           /\ evalResult.should_trigger = FALSE

C5_Witness ==
    /\ EvalDone
    /\ evalTDS = 500
    /\ evalTemp = 27
    /\ evalResult.severity = "safe"

PastGate(r) == req[r].pc \in {"ai_requested", "ai_stored", "ai_failed", "ai_skipped", "responded"}

Responded(r) == req[r].pc = "responded"

\* C2: a request invokes the AI service iff its TDS > 1000 and the key was
\* configured when it was received, whatever its severity; a request with
\* TDS <= 1000 responds with analysis null and writes no Analysis row.
C2_AIOnlyAboveCutoffWithKey ==
    \A r \in Req :
        /\ req[r].ai_calls \in {0, 1}
        /\ ~PastGate(r) => req[r].ai_calls = 0
        /\ PastGate(r) => ((req[r].ai_calls = 1) <=> (req[r].TDS > 1000 /\ req[r].key))
        /\ req[r].TDS <= 1000 => req[r].written = 0
        /\ (Responded(r) /\ req[r].TDS <= 1000) =>
               /\ req[r].response.status_code = 200
               /\ req[r].response.analysis = NoAnalysis

\* TDS = 300, temperature = 40 with a key: critical, flagged, no AI call.
C2_Witness ==
    \E r \in Req :
        /\ Responded(r)
        /\ req[r].key
        /\ req[r].TDS = 300 /\ req[r].temperature = 40
        /\ req[r].response.severity = "critical"
        /\ req[r].response.ai_triggered
        /\ req[r].response.analysis = NoAnalysis
        /\ req[r].ai_calls = 0
        /\ \E q \in Req : req[q].ai_calls = 1

\* C3: a request whose AI call failed invoked the service once, wrote no
\* Analysis row and responds 200 with analysis null and the fields of the
\* reading it stored; the steps that handle the failure leave both tables as
\* they are.
C3_AIFailureIsAbsorbed ==
    /\ [](\A r \in Req :
            req[r].ai_result = "error" =>
                /\ req[r].ai_calls = 1
                /\ req[r].written = 0
                /\ req[r].pc \in {"ai_failed", "responded"}
                /\ Responded(r) =>
                       /\ req[r].response.status_code = 200
                       /\ req[r].response.analysis = NoAnalysis
                       /\ req[r].response.id = req[r].reading.id
                       /\ req[r].response.is_safe = req[r].reading.is_safe)
    /\ [][\A r \in Req :
            (req'[r].ai_result = "error" /\ req'[r] # req[r]) =>
                (readings' = readings /\ analyses' = analyses)]_vars

C3_Witness ==
    \E r \in Req :
        /\ Responded(r)
        /\ req[r].ai_result = "error"
        /\ req[r].response.status_code = 200
        /\ \E row \in readings : row.id = req[r].reading.id /\ row.TDS = req[r].TDS

\* C6: two requests with the same (TDS, temperature), one received with a
\* key and one without, that both respond 200 carry the same severity and the
\* same issues; a request received without a key responds 200 with analysis
\* null.
C6_KeyDoesNotChangeClassification ==
    /\ \A r \in Req :
           (Responded(r) /\ ~req[r].key) =>
               /\ req[r].response.status_code = 200
               /\ req[r].response.analysis = NoAnalysis
    /\ \A r1, r2 \in Req :
           (/\ Responded(r1) /\ Responded(r2)
            /\ req[r1].key /\ ~req[r2].key
            /\ req[r1].TDS = req[r2].TDS
            /\ req[r1].temperature = req[r2].temperature
            /\ req[r1].response.status_code = 200)
           => /\ req[r1].response.severity = req[r2].response.severity
              /\ req[r1].response.issues = req[r2].response.issues

\* TDS = 1100, temperature = 22, analysed with the key and not without it.
C6_Witness ==
    \E r1, r2 \in Req :
        /\ Responded(r1) /\ Responded(r2)
        /\ req[r1].key /\ ~req[r2].key
        /\ req[r1].TDS = 1100 /\ req[r1].temperature = 22
        /\ req[r2].TDS = 1100 /\ req[r2].temperature = 22
        /\ req[r1].response.analysis # NoAnalysis
        /\ req[r2].response.analysis = NoAnalysis
        /\ req[r1].response.issues = req[r2].response.issues
        /\ req[r2].response.severity = "warning"

\* C7: every Reading row in the store has is_safe = (severity is "safe") for
\* the severity of its TDS and temperature, and ai_triggered = NOT is_safe.
C7_TriggeredIsNotSafe ==
    \A row \in readings :
        /\ row.is_safe = (check_thresholds(row.TDS, row.temperature).severity = "safe")
        /\ row.ai_triggered = ~row.is_safe

\* A row flagged ai_triggered whose request never called the AI service.
C7_Witness ==
    \E row \in readings, r \in Req :
        /\ req[r].reading.id = row.id
        /\ req[r].TDS = row.TDS /\ req[r].temperature = row.temperature
        /\ Responded(r)
        /\ req[r].ai_calls = 0
        /\ row.ai_triggered
        /\ ~row.is_safe

\* C8: a request writes an Analysis row only if it passed the cost gate and
\* its AI call succeeded, and writes at most one; once a request has responded
\* 200, no Analysis row with its reading id is added.
C8_NoAnalysisAfterResponse ==
    /\ [](\A r \in Req :
            /\ req[r].written \in {0, 1}
            /\ req[r].written = 1 =>
                   (req[r].should_call_ai /\ req[r].ai_result = "ok"
                    /\ req[r].pc \in {"ai_stored", "responded"}))
    /\ [][\A r \in Req :
            (Responded(r) /\ req[r].response.status_code = 200) =>
                \A a \in analyses' \ analyses : a.reading_id # req[r].reading.id]_vars

C10_AlertIffUnsafe ==
    /\ [](\A r \in Req :
            /\ devOutcome[r] \in {"alert_sent", "alert_failed"} =>
                   (req[r].response.status_code = 200 /\ ~req[r].response.is_safe)
            /\ devOutcome[r] = "safe" =>
                   (req[r].response.status_code = 200 /\ req[r].response.is_safe)
            /\ devOutcome[r] = "api_error" => req[r].response.status_code = 500)
    /\ [](devPc = "alerting" =>
            (req[devReq].response.status_code = 200 /\ ~req[devReq].response.is_safe))
    /\ [][devPc = "alerting" /\ devPc' # "alerting" =>
            /\ devPc' = "listening"
            /\ devOutcome'[devReq] \in {"alert_sent", "alert_failed"}
            /\ readings' = readings /\ analyses' = analyses /\ req' = req]_vars

\* An alert for a reading the cost gate let pass without AI failed, and the
\* loop forwarded the next sample.
C10_Witness ==
    \E r \in Req :
        /\ devOutcome[r] = "alert_failed"
        /\ ~req[r].should_call_ai
        /\ req[r].response.analysis = NoAnalysis
        /\ \E row \in readings : row.id = req[r].response.id /\ ~row.is_safe
        /\ r + 1 \in Req
        /\ req[r + 1].origin = "device"
        /\ req[r + 1].pc # "idle"

\* C11: under any interleaving of ingestion requests and clears, every
\* Analysis row in the store carries the id of a Reading row in the store.
C11_AnalysisHasReading ==
    \A a \in analyses : \E row \in readings : row.id = a.reading_id
====
